---- MODULE Spec2Model ----
(***************************************************************************)
(* Model of the precipitation pipeline of proj_prec_merge: the hourly      *)
(* download loop of app.py and the functions of utils.py                   *)
(* (download_merge_cptec, fix_coordinates, diary_prec_12z,                 *)
(* extract_capitals_from_shapefile, mask_data, extract_capitals_timeseries,*)
(* save_parquet_to_mongodb).                                               *)
(*                                                                         *)
(* Timestamps are whole hours since 1970-01-01T00:00 (the origin pandas    *)
(* floors against).  Longitudes and latitudes are whole degrees.  A grid   *)
(* is a matrix prec[latitude index][longitude index].  A cell that may be  *)
(* NaN is <<>> (NaN) or <<v>>; a spatial mean is <<>> (NaN) or             *)
(* <<sum, count>>.                                                         *)
(***************************************************************************)
EXTENDS Integers, Sequences, FiniteSets, TLC

VARIABLES
    pc,            \* position of the run
    start, end,    \* app.py: requested range (hours)
    dt,            \* app.py: loop variable
    cache,         \* ./merge_data: hour -> file
    ds,            \* app.py: the dataset of the current hour (loop local)
    ds_in,         \* the dataset as opened, before fix_coordinates
    datasets,      \* app.py: accumulated hourly datasets
    ds_all,        \* app.py: concatenated dataset (Unbound until assigned)
    ref_time,      \* diary_prec_12z: the ref_time coordinate, per valid_time
    ds_daily,      \* app.py: aggregated dataset
    gdf,           \* the boundary dataset read from the shapefile
    gdf_capitals,  \* app.py: rows selected by the Capital Resolver
    df_br,         \* app.py: the wide table
    parquet,       \* ./output/capitals_br_daily_prec.parquet
    mongo,         \* capitals.precipitacao_diaria: inserted documents
    error,         \* the exception that ended the run, "none" if none
    messages,      \* informational messages printed after the loop
    visited,       \* history: the value of dt at each loop iteration
    requests,      \* history: hours for which requests.get was issued
    succeeded,     \* history: hours whose fetch and parse succeeded
    aggregated     \* history: diary_prec_12z was called

vars == <<pc, start, end, dt, cache, ds, ds_in, datasets, ds_all, ref_time,
          ds_daily, gdf, gdf_capitals, df_br, parquet, mongo, error,
          messages, visited, requests, succeeded, aggregated>>

(***************************************************************************)
(* Bounds                                                                  *)
(***************************************************************************)
MaxRange == 3      \* hours the requested range is drawn from
MaxLon == 3        \* longest longitude axis drawn for fix_coordinates
MaxLat == 2        \* longest latitude axis drawn for fix_coordinates
MaxSlots == 4      \* candidate hours of an hourly collection with gaps
MaxPrec == 1       \* largest hourly cell value of such a collection
MaxRun == 24       \* longest run of consecutive hours
MaxDays == 2       \* days over which a run may start
MaxRows == 2       \* rows of the boundary dataset

(***************************************************************************)
(* Time                                                                    *)
(***************************************************************************)
HoursPerDay == 24

\* days from 1970-01-01 to 2025-01-01: 55 years, 14 of them leap years
DaysTo2025 == 55 * 365 + 14

\* datetime(2025, 1, day, hour) in hours since 1970-01-01T00:00
Jan2025(day, hour) == (DaysTo2025 + day - 1) * HoursPerDay + hour

\* Series.dt.floor("1D")
Floor1D(t) == (t \div HoursPerDay) * HoursPerDay

\* not the code: the window keyed at the midnight before t
RefTimeMidnight(t) == Floor1D(t)

\* not the code: 12:00 closes a window instead of opening one
RefTimeClosedEnd(t) == Floor1D(t - 13) + 12

\* utils.py:103  (valid_time - 12h).floor("1D") + 12h
RefTime(t) == Floor1D(t - 12) + 12

(***************************************************************************)
(* Sequences and sorting                                                   *)
(***************************************************************************)
Range(s) == {s[i] : i \in 1..Len(s)}

Distinct(s) == \A i, j \in 1..Len(s) : i # j => s[i] # s[j]

Ascending(s) == \A i \in 1..(Len(s) - 1) : s[i] <= s[i + 1]

StrictlyAscending(s) == \A i \in 1..(Len(s) - 1) : s[i] < s[i + 1]

SeqsUpTo(S, n) == UNION {[1..k -> S] : k \in 0..n}

RECURSIVE SumSeq(_)
SumSeq(s) == IF s = <<>> THEN 0 ELSE Head(s) + SumSeq(Tail(s))

Min(S) == CHOOSE x \in S : \A y \in S : x <= y

\* the elements of a finite set of integers, ascending
RECURSIVE SortedSeq(_)
SortedSeq(S) == IF S = {} THEN <<>>
                ELSE <<Min(S)>> \o SortedSeq(S \ {Min(S)})

\* the stable ascending argsort that sortby applies (np.lexsort)
SortPerm(s) ==
    CHOOSE p \in [1..Len(s) -> 1..Len(s)] :
        /\ \A i, j \in 1..Len(s) : i # j => p[i] # p[j]
        /\ \A i, j \in 1..Len(s) :
              i < j => \/ s[p[i]] < s[p[j]]
                       \/ (s[p[i]] = s[p[j]] /\ p[i] < p[j])

(***************************************************************************)
(* fix_coordinates                                                         *)
(***************************************************************************)
\* utils.py:79  ((lon + 180) % 360) - 180
WrapLon(x) == ((x + 180) % 360) - 180

\* not the code: remaps but never sorts
FixCoordinatesUnsorted(d) ==
    IF \E j \in 1..Len(d.longitude) : d.longitude[j] > 180
    THEN [d EXCEPT !.longitude = [j \in 1..Len(d.longitude) |->
                                      WrapLon(d.longitude[j])]]
    ELSE d

FixCoordinates(d) ==
    LET lon0 == d.longitude
        lon1 == IF \E j \in 1..Len(lon0) : lon0[j] > 180
                THEN [j \in 1..Len(lon0) |-> WrapLon(lon0[j])]
                ELSE lon0
        pj   == SortPerm(lon1)
        pi   == SortPerm(d.latitude)
    IN  [d EXCEPT
            !.longitude = [j \in 1..Len(lon1) |-> lon1[pj[j]]],
            !.latitude  = [i \in 1..Len(d.latitude) |-> d.latitude[pi[i]]],
            !.prec      = [i \in 1..Len(d.latitude) |->
                              [j \in 1..Len(lon1) |-> d.prec[pi[i]][pj[j]]]]]

(***************************************************************************)
(* Grids                                                                   *)
(***************************************************************************)
NaN == <<>>

\* a name that has not been assigned yet
Unbound == [bound |-> FALSE]

\* axes of the files as served (longitude in [0,360), descending here)
RawLat == <<-10>>
RawLon == <<310, 300>>

\* the axes fix_coordinates gives those files
GridLat == <<-10>>
GridLon == <<-60, -50>>

\* sum(skipna=True) of a set of time steps of one cell: NaN counts as nothing
RECURSIVE NanSum(_, _, _, _)
NanSum(prec, steps, i, j) ==
    IF steps = {} THEN 0
    ELSE LET n == Min(steps)
             x == prec[n][i][j]
         IN  (IF x = NaN THEN 0 ELSE x[1]) + NanSum(prec, steps \ {n}, i, j)

(***************************************************************************)
(* diary_prec_12z                                                          *)
(***************************************************************************)
\* utils.py:103-104  the ref_time coordinate along valid_time
RefTimeCoord(valid_time) ==
    [n \in 1..Len(valid_time) |-> RefTime(valid_time[n])]

\* not the code: every window summed over all the hours of the input
DiaryPrec12zAllHours(d) ==
    LET rt   == RefTimeCoord(d.valid_time)
        keys == SortedSeq(Range(rt))
    IN  [bound     |-> TRUE,
         ref_time  |-> keys,
         latitude  |-> d.latitude,
         longitude |-> d.longitude,
         prec      |-> [k \in 1..Len(keys) |->
                          [i \in 1..Len(d.latitude) |->
                             [j \in 1..Len(d.longitude) |->
                                <<NanSum(d.prec, 1..Len(rt), i, j)>>]]],
         attrs     |-> "From 12Z to 11Z (ref_time = 12Z start of period)"]

\* utils.py:100-111  groupby("ref_time").sum()
DiaryPrec12z(d) ==
    LET rt   == RefTimeCoord(d.valid_time)
        keys == SortedSeq(Range(rt))
    IN  [bound     |-> TRUE,
         ref_time  |-> keys,
         latitude  |-> d.latitude,
         longitude |-> d.longitude,
         prec      |-> [k \in 1..Len(keys) |->
                          [i \in 1..Len(d.latitude) |->
                             [j \in 1..Len(d.longitude) |->
                                <<NanSum(d.prec,
                                         {n \in 1..Len(rt) : rt[n] = keys[k]},
                                         i, j)>>]]],
         attrs     |-> "From 12Z to 11Z (ref_time = 12Z start of period)"]

(***************************************************************************)
(* extract_capitals_from_shapefile                                         *)
(***************************************************************************)
\* app.py:31-68  the UF -> capital dictionary, two of its entries
uf_br == [uf \in {"AC", "AM"} |-> IF uf = "AC" THEN "Rio Branco" ELSE "Manaus"]

\* not the code: rows selected by the UF alone
ExtractCapitalsByUF(g, capitals_dict) ==
    SelectSeq(g, LAMBDA row : row.SIGLA_UF \in DOMAIN capitals_dict)

\* utils.py:129-136  a GeoDataFrame is the sequence of its rows
ExtractCapitalsFromShapefile(g, capitals_dict) ==
    SelectSeq(g, LAMBDA row : /\ row.SIGLA_UF \in DOMAIN capitals_dict
                              /\ row.NM_MUN = capitals_dict[row.SIGLA_UF])

(***************************************************************************)
(* mask_data and extract_capitals_timeseries                               *)
(***************************************************************************)
\* utils.py:164-170  rio.clip(..., drop=False): a cell outside every geometry
\* of the mask becomes NaN, the shape is kept.  A geometry is the set of
\* <<latitude, longitude>> grid points it contains.  The rio accessor is
\* taken to be registered.
MaskData(d, mask) ==
    LET inside == UNION {mask[r].geometry : r \in 1..Len(mask)}
    IN  [d EXCEPT !.prec =
            [k \in 1..Len(d.prec) |->
               [i \in 1..Len(d.latitude) |->
                  [j \in 1..Len(d.longitude) |->
                     IF <<d.latitude[i], d.longitude[j]>> \in inside
                     THEN d.prec[k][i][j]
                     ELSE NaN]]]]

RECURSIVE SumCells(_, _)
SumCells(grid, cells) ==
    IF cells = {} THEN 0
    ELSE LET c == CHOOSE x \in cells : TRUE
         IN  grid[c[1]][c[2]][1] + SumCells(grid, cells \ {c})

\* utils.py:193  mean(dim=['latitude','longitude']), skipna: per window the
\* mean <<sum, count>> of the cells that are not NaN, NaN if there is none
SpatialMean(d) ==
    [k \in 1..Len(d.prec) |->
        LET valid == {c \in (1..Len(d.latitude)) \X (1..Len(d.longitude)) :
                          d.prec[k][c[1]][c[2]] # NaN}
        IN  IF valid = {} THEN NaN
            ELSE <<SumCells(d.prec[k], valid), Cardinality(valid)>>]

\* utils.py:189-205  the one-column frame of a capital: to_dataframe(),
\* dropna(), rename
CapitalFrame(d, capitals, capital) ==
    LET mask == SelectSeq(capitals, LAMBDA row : row.NM_MUN = capital)
        mean == SpatialMean(MaskData(d, mask))
        kept == SelectSeq([k \in 1..Len(mean) |-> k], LAMBDA k : mean[k] # NaN)
    IN  [column |-> capital,
         index  |-> [r \in 1..Len(kept) |-> d.ref_time[kept[r]]],
         values |-> [r \in 1..Len(kept) |-> mean[kept[r]]]]

\* the index of each frame after the first: its labels that are new
RECURSIVE AppendNew(_, _)
AppendNew(index, frames) ==
    IF frames = <<>> THEN index
    ELSE AppendNew(index \o SelectSeq(Head(frames).index,
                                      LAMBDA w : w \notin Range(index)),
                   Tail(frames))

\* not the code: the union of the indexes in order of first appearance
PdConcatUnsorted(frames) ==
    IF frames = <<>> THEN [bound |-> FALSE, raised |-> "ValueError"]
    ELSE LET index == AppendNew(<<>>, frames)
         IN  [bound   |-> TRUE,
              raised  |-> "none",
              index   |-> index,
              columns |-> [c \in 1..Len(frames) |-> frames[c].column],
              data    |-> [c \in 1..Len(frames) |->
                             [r \in 1..Len(index) |->
                                IF \E q \in 1..Len(frames[c].index) :
                                      frames[c].index[q] = index[r]
                                THEN frames[c].values[
                                        CHOOSE q \in 1..Len(frames[c].index) :
                                           frames[c].index[q] = index[r]]
                                ELSE NaN]]]

\* utils.py:208  pd.concat(df_br_list, axis=1): no frames is a ValueError;
\* the row index is the sorted union of the DatetimeIndexes, a frame with no
\* row for a label has NaN there
PdConcat(frames) ==
    IF frames = <<>> THEN [bound |-> FALSE, raised |-> "ValueError"]
    ELSE LET index == SortedSeq(UNION {Range(frames[c].index) :
                                          c \in 1..Len(frames)})
         IN  [bound   |-> TRUE,
              raised  |-> "none",
              index   |-> index,
              columns |-> [c \in 1..Len(frames) |-> frames[c].column],
              data    |-> [c \in 1..Len(frames) |->
                             [r \in 1..Len(index) |->
                                IF \E q \in 1..Len(frames[c].index) :
                                      frames[c].index[q] = index[r]
                                THEN frames[c].values[
                                        CHOOSE q \in 1..Len(frames[c].index) :
                                           frames[c].index[q] = index[r]]
                                ELSE NaN]]]

\* utils.py:184-205  df_br_list: one frame per row of gdf_capitals
CapitalFrames(d, capitals) ==
    [c \in 1..Len(capitals) |-> CapitalFrame(d, capitals, capitals[c].NM_MUN)]

\* utils.py:173-210
ExtractCapitalsTimeseries(d, capitals) == PdConcat(CapitalFrames(d, capitals))

(***************************************************************************)
(* The run of app.py                                                       *)
(***************************************************************************)
\* the hours a requested range is drawn from; they straddle 12:00
RangeHours == {Jan2025(2, 10) + h : h \in 0..(MaxRange - 1)}

\* a file of ./merge_data
NoFile == [exists |-> FALSE, ok |-> FALSE, fresh |-> FALSE, prec |-> <<>>]

\* left by an earlier run: a readable GRIB2 file, or an unreadable one
StaleFile == [exists |-> TRUE, ok |-> TRUE, fresh |-> FALSE,
              prec |-> << << <<5>>, <<5>> >> >>]

StaleCorrupt == [exists |-> TRUE, ok |-> FALSE, fresh |-> FALSE, prec |-> <<>>]

\* bodies of a 200 response: a GRIB2 field on the raw axes
Payloads == { << << <<1>>, <<2>> >> >>, << << <<0>>, <<3>> >> >> }

\* utils.py:53-55  the file written from a 200 response; a body that is not
\* a GRIB2 field (or a transfer cut short) leaves a file that cannot be opened
Written(body) == [exists |-> TRUE, ok |-> body \in Payloads, fresh |-> TRUE,
                  prec |-> IF body \in Payloads THEN body ELSE <<>>]

Responses == {"ConnectionError", "Status404", "Status200"}

Bodies == Payloads \cup {<<>>}

\* not the code: the loop steps two hours at a time
SkipHour(t) == t + 2

\* app.py:110  dt += timedelta(hours=1)
NextHour(t) == t + 1

\* app.py:91-95  xr.open_dataset(filename)[["prec"]]
OpenDataset(file, t) ==
    [valid_time |-> t, latitude |-> RawLat, longitude |-> RawLon,
     prec |-> file.prec]

\* app.py:116  xr.concat(datasets, dim="valid_time")
XrConcat(dss) ==
    [bound      |-> TRUE,
     valid_time |-> [n \in 1..Len(dss) |-> dss[n].valid_time],
     latitude   |-> dss[1].latitude,
     longitude  |-> dss[1].longitude,
     prec       |-> [n \in 1..Len(dss) |-> dss[n].prec[1]]]

\* app.py:77-81
Guard ==
    /\ pc = "guard"
    /\ IF start > end
       THEN /\ messages' = Append(messages,
                 "The start date must be earlier than or equal to the end date.")
            /\ pc' = "concat"
            /\ dt' = dt
       ELSE /\ messages' = messages
            /\ pc' = "loop"
            /\ dt' = start
    /\ UNCHANGED <<start, end, cache, ds, ds_in, datasets, ds_all, ref_time,
                   ds_daily, gdf, gdf_capitals, df_br, parquet, mongo, error,
                   visited, requests, succeeded, aggregated>>

\* app.py:82-110 with utils.py:28-62  one iteration of the loop.  A
\* ConnectionError is raised by requests.get; any other status than 200
\* writes nothing and raises nothing; the file of the hour is then opened,
\* whoever wrote it, and an exception of any step skips the hour.
ProcessHour(resp, body) ==
    /\ pc = "loop"
    /\ dt <= end
    /\ resp = "Status200" \/ body = <<>>
    /\ LET file   == IF resp = "Status200" THEN Written(body) ELSE cache[dt]
           opened == resp # "ConnectionError" /\ file.exists /\ file.ok
           raw    == OpenDataset(file, dt)
           fixed  == FixCoordinates(raw)
       IN  /\ cache' = [cache EXCEPT ![dt] = file]
           /\ IF opened
              THEN /\ ds_in' = raw
                   /\ ds' = [fixed EXCEPT !.prec = <<fixed.prec>>]
                   /\ datasets' = Append(datasets, ds')
              ELSE UNCHANGED <<ds_in, ds, datasets>>
           /\ succeeded' = IF resp = "Status200" /\ file.ok
                           THEN succeeded \cup {dt} ELSE succeeded
    /\ visited' = Append(visited, dt)
    /\ requests' = Append(requests, dt)
    /\ dt' = NextHour(dt)
    /\ pc' = IF dt' <= end THEN "loop" ELSE "concat"
    /\ UNCHANGED <<start, end, ds_all, ref_time, ds_daily, gdf, gdf_capitals,
                   df_br, parquet, mongo, error, messages, aggregated>>

\* app.py:112-118
Concat ==
    /\ pc = "concat"
    /\ IF datasets # <<>>
       THEN /\ ds_all' = XrConcat(datasets)
            /\ messages' = Append(messages, "Concatenating hourly datasets...")
       ELSE /\ ds_all' = ds_all
            /\ messages' = Append(messages, "No datasets to concatenate.")
    /\ pc' = "aggregate"
    /\ UNCHANGED <<start, end, dt, cache, ds, ds_in, datasets, ref_time,
                   ds_daily, gdf, gdf_capitals, df_br, parquet, mongo, error,
                   visited, requests, succeeded, aggregated>>

\* app.py:121  reading a name that was never assigned is a NameError
Aggregate ==
    /\ pc = "aggregate"
    /\ IF ds_all.bound
       THEN /\ ref_time' = RefTimeCoord(ds_all.valid_time)
            /\ ds_daily' = DiaryPrec12z(ds_all)
            /\ aggregated' = TRUE
            /\ pc' = "resolve"
            /\ error' = error
       ELSE /\ error' = "NameError"
            /\ pc' = "crashed"
            /\ UNCHANGED <<ref_time, ds_daily, aggregated>>
    /\ UNCHANGED <<start, end, dt, cache, ds, ds_in, datasets, ds_all, gdf,
                   gdf_capitals, df_br, parquet, mongo, messages, visited,
                   requests, succeeded>>

\* app.py:124-126
ResolveCapitals ==
    /\ pc = "resolve"
    /\ gdf_capitals' = ExtractCapitalsFromShapefile(gdf, uf_br)
    /\ pc' = "extract"
    /\ UNCHANGED <<start, end, dt, cache, ds, ds_in, datasets, ds_all,
                   ref_time, ds_daily, gdf, df_br, parquet, mongo, error,
                   messages, visited, requests, succeeded, aggregated>>

\* app.py:129
ExtractTimeseries ==
    /\ pc = "extract"
    /\ LET table == ExtractCapitalsTimeseries(ds_daily, gdf_capitals)
       IN  IF table.raised = "none"
           THEN /\ df_br' = table
                /\ pc' = "write"
                /\ error' = error
           ELSE /\ df_br' = df_br
                /\ pc' = "crashed"
                /\ error' = table.raised
    /\ UNCHANGED <<start, end, dt, cache, ds, ds_in, datasets, ds_all,
                   ref_time, ds_daily, gdf, gdf_capitals, parquet, mongo,
                   messages, visited, requests, succeeded, aggregated>>

\* app.py:133-138  to_parquet refuses a frame with two columns of one name
WriteParquet ==
    /\ pc = "write"
    /\ IF Distinct(df_br.columns)
       THEN /\ parquet' = df_br
            /\ pc' = "mongo"
            /\ error' = error
       ELSE /\ parquet' = parquet
            /\ pc' = "crashed"
            /\ error' = "ValueError"
    /\ UNCHANGED <<start, end, dt, cache, ds, ds_in, datasets, ds_all,
                   ref_time, ds_daily, gdf, gdf_capitals, df_br, mongo,
                   messages, visited, requests, succeeded, aggregated>>

\* utils.py:234-237  reset_index().to_dict(orient="records")
Records(df) ==
    [r \in 1..Len(df.index) |->
        [ref_time |-> df.index[r],
         cells    |-> [c \in 1..Len(df.columns) |-> df.data[c][r]]]]

\* app.py:141 with utils.py:227-247  insert_many refuses an empty list; the
\* server may not be reachable
SaveParquetToMongodb(connected) ==
    /\ pc = "mongo"
    /\ IF ~parquet.bound
       THEN /\ error' = "FileNotFoundError"
            /\ pc' = "crashed"
            /\ mongo' = mongo
       ELSE IF Records(parquet) = <<>>
       THEN /\ error' = "TypeError"
            /\ pc' = "crashed"
            /\ mongo' = mongo
       ELSE IF ~connected
       THEN /\ error' = "ServerSelectionTimeoutError"
            /\ pc' = "crashed"
            /\ mongo' = mongo
       ELSE /\ mongo' = mongo \o Records(parquet)
            /\ pc' = "done"
            /\ error' = error
    /\ UNCHANGED <<start, end, dt, cache, ds, ds_in, datasets, ds_all,
                   ref_time, ds_daily, gdf, gdf_capitals, df_br, parquet,
                   messages, visited, requests, succeeded, aggregated>>

\* app.py:98 on its own: fix_coordinates applied to an opened dataset
FixHour ==
    /\ pc = "fix"
    /\ ds' = FixCoordinates(ds_in)
    /\ pc' = "fixed"
    /\ UNCHANGED <<start, end, dt, cache, ds_in, datasets, ds_all, ref_time,
                   ds_daily, gdf, gdf_capitals, df_br, parquet, mongo, error,
                   messages, visited, requests, succeeded, aggregated>>

(***************************************************************************)
(* Inputs                                                                  *)
(***************************************************************************)
\* the grid points of the normalised axes
Points == {<<GridLat[i], GridLon[j]>> : i \in 1..Len(GridLat), j \in 1..Len(GridLon)}

\* rows a boundary dataset is made of: UF, municipality name, polygon
RowPool == [SIGLA_UF : {"AC", "AM", "EX"},
            NM_MUN   : {"Rio Branco", "Manaus"},
            geometry : SUBSET Points]

Shapefiles == SeqsUpTo(RowPool, MaxRows)

Polygon(lon) == {<<GridLat[1], lon>>}

\* the boundary datasets the whole run is checked with: both capitals there;
\* one capital under another name; no capital; a capital outside the grid
RunShapefiles ==
    { << [SIGLA_UF |-> "AC", NM_MUN |-> "Rio Branco", geometry |-> Polygon(-60)],
         [SIGLA_UF |-> "AM", NM_MUN |-> "Manaus", geometry |-> Polygon(-50)] >>,
      << [SIGLA_UF |-> "AC", NM_MUN |-> "Rio Branco", geometry |-> Polygon(-60)],
         [SIGLA_UF |-> "AM", NM_MUN |-> "Manacapuru", geometry |-> Polygon(-50)] >>,
      << [SIGLA_UF |-> "AC", NM_MUN |-> "Xapuri", geometry |-> Polygon(-60)] >>,
      << [SIGLA_UF |-> "AC", NM_MUN |-> "Rio Branco", geometry |-> {}] >> }

\* windows of the daily datasets drawn for the Timeseries Extractor
DailyWindows == <<Jan2025(2, 12), Jan2025(3, 12)>>

\* a daily dataset: the cells of `nans` are NaN, the others hold a value
\* that tells them apart
DailyInput(nans) ==
    [bound     |-> TRUE,
     ref_time  |-> DailyWindows,
     latitude  |-> GridLat,
     longitude |-> GridLon,
     prec      |-> [k \in 1..Len(DailyWindows) |->
                      [i \in 1..Len(GridLat) |->
                         [j \in 1..Len(GridLon) |->
                            IF <<k, j>> \in nans THEN NaN
                            ELSE <<Len(GridLon) * k + j>>]]],
     attrs     |-> "From 12Z to 11Z (ref_time = 12Z start of period)"]

\* longitudes and latitudes an axis is drawn from
LonValues == {-180, -90, 0, 90, 180, 270, 360}

LatValues == {-10, 0, 10}

Axes(S, n) == {s \in SeqsUpTo(S, n) : Len(s) >= 1 /\ Distinct(s)}

\* an opened dataset whose cells tell their original position
FixInput(lat, lon) ==
    [valid_time |-> Jan2025(2, 23),
     latitude   |-> lat,
     longitude  |-> lon,
     prec       |-> [i \in 1..Len(lat) |->
                       [j \in 1..Len(lon) |-> <<(i - 1) * Len(lon) + j>>]]]

\* candidate hours of a collection with gaps: 11:00, 12:00, 13:00, ...
SlotHour(s) == Jan2025(2, 10) + s

HourGrids == [1..Len(GridLat) -> [1..Len(GridLon) -> {<<v>> : v \in 0..MaxPrec}]]

\* the concatenation of the hours `present`, hour s holding grid g[s]
GapInput(present, g) ==
    LET slots == SortedSeq(present)
    IN  [bound      |-> TRUE,
         valid_time |-> [n \in 1..Len(slots) |-> SlotHour(slots[n])],
         latitude   |-> GridLat,
         longitude  |-> GridLon,
         prec       |-> [n \in 1..Len(slots) |-> g[slots[n]]]]

\* n consecutive hours from a, every cell v
RunInput(a, n, v) ==
    [bound      |-> TRUE,
     valid_time |-> [k \in 1..n |-> a + k - 1],
     latitude   |-> GridLat,
     longitude  |-> GridLon,
     prec       |-> [k \in 1..n |->
                       [i \in 1..Len(GridLat) |->
                          [j \in 1..Len(GridLon) |-> <<v>>]]]]

RunStarts == {Jan2025(2, 0) + h : h \in 0..(MaxDays * HoursPerDay - 1)}

(***************************************************************************)
(* Specifications                                                          *)
(***************************************************************************)
\* everything but pc, the range, the cache and the inputs of the functions
InitRest ==
    /\ dt = Jan2025(2, 10)
    /\ ds = Unbound
    /\ datasets = <<>>
    /\ ref_time = <<>>
    /\ gdf_capitals = <<>>
    /\ df_br = Unbound
    /\ parquet = Unbound
    /\ mongo = <<>>
    /\ error = "none"
    /\ messages = <<>>
    /\ visited = <<>>
    /\ requests = <<>>
    /\ succeeded = {}
    /\ aggregated = FALSE

\* app.py:72-75  the run from its first line, with any range, any cache
\* directory and one of the boundary datasets
Init ==
    /\ pc = "guard"
    /\ start \in RangeHours
    /\ end \in RangeHours
    /\ cache \in [RangeHours -> {NoFile, StaleFile, StaleCorrupt}]
    /\ gdf \in RunShapefiles
    /\ ds_in = Unbound
    /\ ds_all = Unbound
    /\ ds_daily = Unbound
    /\ InitRest

Next ==
    \/ Guard
    \/ \E resp \in Responses, body \in Bodies : ProcessHour(resp, body)
    \/ Concat
    \/ Aggregate
    \/ ResolveCapitals
    \/ ExtractTimeseries
    \/ WriteParquet
    \/ \E connected \in BOOLEAN : SaveParquetToMongodb(connected)

Spec == Init /\ [][Next]_vars

\* app.py:77-110  the steps of the loop
LoopStep ==
    \/ Guard
    \/ \E resp \in Responses, body \in Bodies : ProcessHour(resp, body)

\* every request returns or raises, so an iteration of the loop that can
\* be taken is taken
FairSpec == Init /\ [][Next]_vars /\ WF_vars(LoopStep)

InitIdleRun ==
    /\ start = Jan2025(2, 10)
    /\ end = Jan2025(2, 10)
    /\ cache = [h \in RangeHours |-> NoFile]

\* fix_coordinates on its own: any axes of distinct values, in any order
InitFix ==
    /\ pc = "fix"
    /\ \E lat \in Axes(LatValues, MaxLat), lon \in Axes(LonValues, MaxLon) :
          ds_in = FixInput(lat, lon)
    /\ gdf = <<>>
    /\ ds_all = Unbound
    /\ ds_daily = Unbound
    /\ InitIdleRun
    /\ InitRest

SpecFix == InitFix /\ [][FixHour]_vars

\* diary_prec_12z on its own: a collection of hours with gaps and any
\* cells, or a run of consecutive hours with equal cells
InitAgg ==
    /\ pc = "aggregate"
    /\ \/ \E present \in (SUBSET (1..MaxSlots)) \ {{}} :
             \E g \in [present -> HourGrids] : ds_all = GapInput(present, g)
       \/ \E a \in RunStarts, n \in 1..MaxRun, v \in 0..MaxPrec :
             ds_all = RunInput(a, n, v)
    /\ gdf = <<>>
    /\ ds_in = Unbound
    /\ ds_daily = Unbound
    /\ InitIdleRun
    /\ InitRest

SpecAgg == InitAgg /\ [][Aggregate]_vars

\* the Capital Resolver and the Timeseries Extractor on their own: any
\* boundary dataset and any daily dataset
InitCap ==
    /\ pc = "resolve"
    /\ gdf \in Shapefiles
    /\ \E nans \in SUBSET ((1..Len(DailyWindows)) \X (1..Len(GridLon))) :
          ds_daily = DailyInput(nans)
    /\ ds_in = Unbound
    /\ ds_all = Unbound
    /\ InitIdleRun
    /\ InitRest

NextCap == ResolveCapitals \/ ExtractTimeseries

SpecCap == InitCap /\ [][NextCap]_vars

(***************************************************************************)
(* Claims about the run (Spec, FairSpec)                                   *)
(***************************************************************************)
Ended == pc \in {"done", "crashed"}

AfterLoop == pc \notin {"guard", "loop", "fix", "fixed"}

\* C1: a run in which no hour is processed successfully ends gracefully:
\* diary_prec_12z is never called, no output file is written, the document
\* store is not touched, and the run ends with the informational message
\* and no raised error.
C1_EmptyRunEndsGracefully ==
    (Ended /\ datasets = <<>>) =>
        /\ ~aggregated
        /\ ~parquet.bound
        /\ mongo = <<>>
        /\ "No datasets to concatenate." \in Range(messages)
        /\ error = "none"

\* C2: after the loop the accumulated list holds exactly one grid for each
\* hour whose fetch and parse both succeeded in this run and none for a
\* failed hour, whatever the cache directory held before the run.
C2_OnlyFetchedHoursAccumulated ==
    AfterLoop =>
        /\ {datasets[n].valid_time : n \in 1..Len(datasets)} = succeeded
        /\ Len(datasets) = Cardinality(succeeded)

C10_Order ==
    start <= end =>
        /\ visited = [n \in 1..Len(visited) |-> start + n - 1]
        /\ requests = visited
        /\ Distinct(requests)
        /\ Len(visited) <= end - start + 1
        /\ AfterLoop => Len(visited) = end - start + 1

C10_AppendOnly ==
    /\ Len(datasets') \in {Len(datasets), Len(datasets) + 1}
    /\ SubSeq(datasets', 1, Len(datasets)) = datasets

\* C10: for start <= end the loop visits start, start+1h, ..., end once
\* each in increasing order, whether the hour succeeds or fails, with one
\* download per hour; the accumulated list only grows by appending; the
\* loop ends after (end - start)/1h + 1 iterations.
C10_LoopVisitsEveryHourOnce ==
    /\ []C10_Order
    /\ [][C10_AppendOnly]_vars
    /\ <>AfterLoop

\* a range of several hours has been walked, one hour failed and one did not
C10_Witness ==
    /\ pc = "concat"
    /\ end >= start + 2
    /\ Len(visited) = end - start + 1
    /\ Len(datasets) = 1
    /\ datasets[1].valid_time = start + 1

(***************************************************************************)
(* Claims about fix_coordinates (SpecFix)                                  *)
(***************************************************************************)
AnyAbove180 == \E j \in 1..Len(ds_in.longitude) : ds_in.longitude[j] > 180

\* no two longitudes of the input name the same meridian
NoTwoAFullTurnApart ==
    \A i, j \in 1..Len(ds_in.longitude) :
        ds_in.longitude[i] # ds_in.longitude[j] + 360

\* C6 as stated: the returned longitudes lie in [-180,180) and are strictly
\* ascending, for every input axis, and latitude is strictly ascending.
C6_Original ==
    pc = "fixed" =>
        /\ \A j \in 1..Len(ds.longitude) :
              -180 <= ds.longitude[j] /\ ds.longitude[j] < 180
        /\ StrictlyAscending(ds.longitude)
        /\ StrictlyAscending(ds.latitude)

\* C6 amended: for an input axis of distinct values in [-180,360], in any
\* order, the returned longitudes lie in [-180,180] and are ascending; they
\* lie in [-180,180) when some input value exceeds 180 and are the input
\* values otherwise (an input 180 then stays 180); they are strictly
\* ascending when no value exceeds 180 or no two input values are 360
\* apart; latitude, of distinct values, is strictly ascending.
C6_LongitudeNormalised ==
    pc = "fixed" =>
        /\ Len(ds.longitude) = Len(ds_in.longitude)
        /\ \A j \in 1..Len(ds.longitude) :
              -180 <= ds.longitude[j] /\ ds.longitude[j] <= 180
        /\ AnyAbove180 =>
              \A j \in 1..Len(ds.longitude) : ds.longitude[j] < 180
        /\ ~AnyAbove180 => Range(ds.longitude) = Range(ds_in.longitude)
        /\ Ascending(ds.longitude)
        /\ (~AnyAbove180 \/ NoTwoAFullTurnApart) =>
              StrictlyAscending(ds.longitude)
        /\ StrictlyAscending(ds.latitude)

\* a descending axis in [0,360) with values on both sides of 180 was fixed
C6_Witness ==
    /\ pc = "fixed"
    /\ ds_in.longitude = <<270, 90, 0>>
    /\ ds.longitude = <<-90, 0, 90>>
    /\ Len(ds_in.latitude) > 1
    /\ ds_in.latitude[1] > ds_in.latitude[2]

(***************************************************************************)
(* Claims about diary_prec_12z (SpecAgg)                                   *)
(***************************************************************************)
Aggregated == pc = "resolve" /\ aggregated

\* hour t falls in the window that starts at k
InWindow(t, k) == k <= t /\ t < k + HoursPerDay

\* C3: every hourly timestamp t gets one window key, floor(t - 12h, 1 day)
\* + 12h: the key is at 12:00, key <= t < key + 24h, and two keys differ by
\* a whole number of days.
C3_WindowKey ==
    Aggregated =>
        /\ Len(ref_time) = Len(ds_all.valid_time)
        /\ \A n \in 1..Len(ref_time) :
              /\ ref_time[n] % HoursPerDay = 12
              /\ InWindow(ds_all.valid_time[n], ref_time[n])
        /\ \A n, m \in 1..Len(ref_time) :
              (ref_time[n] - ref_time[m]) % HoursPerDay = 0
        /\ Range(ds_daily.ref_time) = Range(ref_time)

\* 11:00 and the 12:00 after it were both there: 12:00 opened a new window
C3_Witness ==
    /\ Aggregated
    /\ \E n, m \in 1..Len(ref_time) :
          /\ ds_all.valid_time[n] % HoursPerDay = 11
          /\ ds_all.valid_time[m] = ds_all.valid_time[n] + 1
          /\ ref_time[m] = ref_time[n] + HoursPerDay
          /\ ref_time[m] = ds_all.valid_time[m]

\* the sum of cell (i, j) over the hours of the input that fall in window k
WindowTotal(k, i, j) ==
    SumSeq([n \in 1..Len(ds_all.valid_time) |->
               IF InWindow(ds_all.valid_time[n], k)
               THEN ds_all.prec[n][i][j][1] ELSE 0])

\* C4: diary_prec_12z gives one grid per window that has a present hour
\* and none for any other window; each cell is the sum of that cell over
\* the present hours of the window, however few they are.
C4_SumOverPresentHours ==
    Aggregated =>
        /\ StrictlyAscending(ds_daily.ref_time)
        /\ Len(ds_daily.prec) = Len(ds_daily.ref_time)
        /\ \A n \in 1..Len(ds_all.valid_time) :
              \E w \in 1..Len(ds_daily.ref_time) :
                 InWindow(ds_all.valid_time[n], ds_daily.ref_time[w])
        /\ \A w \in 1..Len(ds_daily.ref_time) :
              /\ ds_daily.ref_time[w] % HoursPerDay = 12
              /\ \E n \in 1..Len(ds_all.valid_time) :
                    InWindow(ds_all.valid_time[n], ds_daily.ref_time[w])
              /\ \A i \in 1..Len(GridLat), j \in 1..Len(GridLon) :
                    ds_daily.prec[w][i][j] =
                       <<WindowTotal(ds_daily.ref_time[w], i, j)>>

\* two windows, each with hours missing, and cells that differ
C4_Witness ==
    /\ Aggregated
    /\ ds_all.valid_time = <<SlotHour(1), SlotHour(2), SlotHour(4)>>
    /\ Len(ds_daily.ref_time) = 2
    /\ ds_daily.prec[2][1][1] = <<2>>
    /\ ds_daily.prec[2][1][2] = <<1>>

\* the 24 hours 2025-01-02T13:00 .. 2025-01-03T12:00, every cell 1
C5_Scenario == ds_all = RunInput(Jan2025(2, 13), 24, 1)

\* C5 as stated: those hours aggregate to one window keyed
\* 2025-01-02T12:00 with every cell 24.
C5_Original ==
    (Aggregated /\ C5_Scenario) =>
        /\ ds_daily.ref_time = <<Jan2025(2, 12)>>
        /\ \A i \in 1..Len(GridLat), j \in 1..Len(GridLon) :
              ds_daily.prec[1][i][j] = <<24>>

\* C5 amended: those hours aggregate to two windows: 2025-01-02T12:00 with
\* every cell 23 (13:00 .. 11:00) and 2025-01-03T12:00 with every cell 1
\* (12:00 alone).
C5_TwoWindows ==
    (Aggregated /\ C5_Scenario) =>
        /\ ds_daily.ref_time = <<Jan2025(2, 12), Jan2025(3, 12)>>
        /\ \A i \in 1..Len(GridLat), j \in 1..Len(GridLon) :
              /\ ds_daily.prec[1][i][j] = <<23>>
              /\ ds_daily.prec[2][i][j] = <<1>>

C5_Witness == Aggregated /\ C5_Scenario /\ Len(ds_daily.prec) = 2

(***************************************************************************)
(* Claims about the Capital Resolver and the Timeseries Extractor (SpecCap)*)
(***************************************************************************)
Resolved == pc \notin {"resolve", "guard", "loop", "concat", "aggregate"}

Extracted == Resolved /\ pc # "extract"

\* the row matches an entry of the mapping
Matches(row) ==
    \E uf \in DOMAIN uf_br : row.SIGLA_UF = uf /\ row.NM_MUN = uf_br[uf]

Count(s, Test(_)) == Len(SelectSeq(s, Test))

\* C7 as stated: the result is exactly the rows whose (UF, name) pair is an
\* entry of the mapping; a UF with a matching row gets exactly one polygon,
\* a UF whose mapped name matches no row gets none, without an error.
C7_Original ==
    Resolved =>
        /\ gdf_capitals = SelectSeq(gdf, Matches)
        /\ \A uf \in DOMAIN uf_br :
              LET OfUF(row) == row.SIGLA_UF = uf
                  Hit(row)  == row.SIGLA_UF = uf /\ row.NM_MUN = uf_br[uf]
              IN  Count(gdf_capitals, OfUF) =
                     IF Count(gdf, Hit) > 0 THEN 1 ELSE 0
        /\ pc = "extract" => error = "none"

\* C7 amended: the result is exactly the rows whose (UF, name) pair is an
\* entry of the mapping, in the order of the dataset; a UF gets as many
\* polygons as the dataset has rows with that UF and its mapped name:
\* exactly one when there is one such row, none when there is none, and no
\* error is raised.
C7_ExactPairMatch ==
    Resolved =>
        /\ gdf_capitals = SelectSeq(gdf, Matches)
        /\ \A uf \in DOMAIN uf_br :
              LET OfUF(row) == row.SIGLA_UF = uf
                  Hit(row)  == row.SIGLA_UF = uf /\ row.NM_MUN = uf_br[uf]
              IN  Count(gdf_capitals, OfUF) = Count(gdf, Hit)
        /\ pc = "extract" => error = "none"

\* one capital found once, the other UF there under another name only
C7_Witness ==
    /\ pc = "extract"
    /\ Len(gdf) = 2
    /\ gdf[1].SIGLA_UF = "AM" /\ gdf[1].NM_MUN = "Rio Branco"
    /\ gdf[2].SIGLA_UF = "AC" /\ gdf[2].NM_MUN = "Rio Branco"
    /\ gdf_capitals = <<gdf[2]>>

\* C8: after the Capital Resolver and the Timeseries Extractor the table
\* has a column for every region of the mapping, all null for a region
\* whose name is not in the dataset, and neither step has raised.
C8_ColumnForEveryRegion ==
    Extracted =>
        /\ error = "none"
        /\ df_br.bound
        /\ \A uf \in DOMAIN uf_br :
              \E c \in 1..Len(df_br.columns) :
                 /\ df_br.columns[c] = uf_br[uf]
                 /\ ~(\E r \in 1..Len(gdf) : gdf[r].NM_MUN = uf_br[uf]) =>
                       \A r \in 1..Len(df_br.index) : df_br.data[c][r] = NaN

\* the windows in which the capital of column c has a cell that is not NaN
\* inside the polygons of its name
ValidWindows(c) ==
    LET inside == UNION {gdf_capitals[r].geometry :
                            r \in {q \in 1..Len(gdf_capitals) :
                                      gdf_capitals[q].NM_MUN =
                                         gdf_capitals[c].NM_MUN}}
    IN  {ds_daily.ref_time[k] : k \in
            {k \in 1..Len(ds_daily.ref_time) :
                \E i \in 1..Len(GridLat), j \in 1..Len(GridLon) :
                   /\ <<GridLat[i], GridLon[j]>> \in inside
                   /\ ds_daily.prec[k][i][j] # NaN}}

\* C9: the row index of the returned table is the union of the windows
\* left in the regions' series, each once, ascending; a region with no
\* value for a window has a null cell there, and a region with no valid
\* cell at all gives an all-null column and no error.
C9_IndexIsSortedUnion ==
    pc = "write" =>
        /\ error = "none"
        /\ Len(df_br.columns) = Len(gdf_capitals)
        /\ StrictlyAscending(df_br.index)
        /\ Range(df_br.index) =
              UNION {ValidWindows(c) : c \in 1..Len(gdf_capitals)}
        /\ \A c \in 1..Len(gdf_capitals), r \in 1..Len(df_br.index) :
              (df_br.data[c][r] = NaN) <=> (df_br.index[r] \notin ValidWindows(c))

\* the first region has the later window only, the second the earlier one
\* only: the union is not in order of appearance
C9_Witness ==
    /\ pc = "write"
    /\ Len(gdf_capitals) = 2
    /\ ValidWindows(1) = {DailyWindows[2]}
    /\ ValidWindows(2) = {DailyWindows[1]}
    /\ df_br.index = DailyWindows
    /\ df_br.data[1][1] = NaN

====
